---------------------------- MODULE Spec2Model ----------------------------
(***************************************************************************)
(* Model of src/primitives/block.h: CBlockHeader, CBlock and CBlockLocator *)
(* of a hybrid proof-of-work / proof-of-stake chain.                       *)
(*                                                                         *)
(* One object is under test (obj): a CBlockHeader, a CBlock or a           *)
(* CBlockLocator.  Every member function of block.h is an action; ret      *)
(* records the last call, its result and, for the calls that return        *)
(* something, the object as it was when the call started (pre).            *)
(*                                                                         *)
(* 32-bit quantities are carried as their two's-complement residue in      *)
(* -2^31 .. 2^31-1, so (uint32_t)-1 is -1; their four encoded bytes are    *)
(* the same.  256-bit digests are carried as small naturals.               *)
(***************************************************************************)
EXTENDS Integers, Sequences, FiniteSets, TLC

VARIABLES obj, ret

vars == <<obj, ret>>

\* Longest transaction list and longest locator the model builds.
MaxTx == 2
MaxHave == 2

---------------------------------------------------------------------------
(* Collaborators: COutPoint and CTransaction (primitives/transaction.h).   *)

\* COutPoint() / COutPoint::SetNull(): hash null, n = (uint32_t)-1.
NullOutPoint == [hash |-> 0, n |-> -1]

StoredOutPoint == [hash |-> 3, n |-> 0]

\* A transaction as block.h reads it: IsCoinStake(), vin[0].prevout, nTime.
PaymentTx == [nTime |-> 2, vin |-> <<[hash |-> 1, n |-> 1]>>, coinStake |-> FALSE]

CoinStakeTx == [nTime |-> 7, vin |-> <<[hash |-> 2, n |-> 0]>>, coinStake |-> TRUE]

Transactions == {PaymentTx, CoinStakeTx}

IsCoinStake(tx) == tx.coinStake

---------------------------------------------------------------------------
(* Construction.                                                           *)

\* CBlockHeader::SetNull applied to the header fields of o.
HeaderSetNull(o) ==
    [o EXCEPT !.nVersion = 0, !.hashPrevBlock = 0, !.hashMerkleRoot = 0,
              !.nTime = 0, !.nBits = 0, !.nNonce = 0, !.hashStateRoot = 0,
              !.vchBlockSig = <<>>, !.fStake = FALSE,
              !.prevoutStake = NullOutPoint, !.nStakeTime = 0]

\* CBlockHeader(): SetNull().
NewHeader ==
    [type |-> "CBlockHeader",
     nVersion |-> 0, hashPrevBlock |-> 0, hashMerkleRoot |-> 0, nTime |-> 0,
     nBits |-> 0, nNonce |-> 0, hashStateRoot |-> 0, vchBlockSig |-> <<>>,
     fStake |-> FALSE, prevoutStake |-> NullOutPoint, nStakeTime |-> 0]

\* CBlock::SetNull: CBlockHeader::SetNull(); vtx.clear(); fChecked = false.
BlockSetNull(o) == [HeaderSetNull(o) EXCEPT !.vtx = <<>>, !.fChecked = FALSE]

\* CBlock(): SetNull().
NewBlock ==
    [type |-> "CBlock",
     nVersion |-> 0, hashPrevBlock |-> 0, hashMerkleRoot |-> 0, nTime |-> 0,
     nBits |-> 0, nNonce |-> 0, hashStateRoot |-> 0, vchBlockSig |-> <<>>,
     fStake |-> FALSE, prevoutStake |-> NullOutPoint, nStakeTime |-> 0,
     vtx |-> <<>>, fChecked |-> FALSE]

\* CBlockLocator(): vHave empty.
NewLocator == [type |-> "CBlockLocator", vHave |-> <<>>]

IsBlock(o) == o.type = "CBlock"
IsHeaderOrBlock(o) == o.type \in {"CBlockHeader", "CBlock"}
IsLocator(o) == o.type = "CBlockLocator"

---------------------------------------------------------------------------
(* Stake derivation: the virtual functions of CBlockHeader and their       *)
(* overrides in CBlock.                                                    *)

\* CBlockHeader::IsProofOfStake
HeaderIsProofOfStake(o) == o.fStake

\* CBlockHeader::PrevoutStake
HeaderPrevoutStake(o) == o.prevoutStake

\* CBlockHeader::StakeTime
HeaderStakeTime(o) == o.nStakeTime

\* BlockIsProofOfStake with a slip: looks at the first transaction.
BlockIsProofOfStakeFirstTx(o) ==
    IF Len(o.vtx) = 0 THEN o.fStake
    ELSE Len(o.vtx) > 1 /\ IsCoinStake(o.vtx[1])

\* CBlock::IsProofOfStake (vtx[1] of the source is vtx[2] here)
BlockIsProofOfStake(o) ==
    IF Len(o.vtx) = 0 THEN o.fStake
    ELSE Len(o.vtx) > 1 /\ IsCoinStake(o.vtx[2])

\* BlockPrevoutStake with a slip: takes transaction[1]'s outpoint without asking
\* whether it is a coinstake.
BlockPrevoutStakeUnchecked(o) ==
    IF Len(o.vtx) = 0 THEN o.prevoutStake
    ELSE IF Len(o.vtx) > 1 THEN o.vtx[2].vin[1] ELSE NullOutPoint

\* CBlock::PrevoutStake
BlockPrevoutStake(o) ==
    IF Len(o.vtx) = 0 THEN o.prevoutStake
    ELSE IF BlockIsProofOfStake(o) THEN o.vtx[2].vin[1] ELSE NullOutPoint

\* CBlock::StakeTime
BlockStakeTime(o) ==
    IF Len(o.vtx) = 0 THEN o.nStakeTime
    ELSE IF BlockIsProofOfStake(o) THEN o.vtx[2].nTime ELSE 0

\* A virtual call o.IsProofOfStake(): the override of o's dynamic type runs,
\* whatever the static type of the handle.
IsProofOfStake(o) ==
    IF IsBlock(o) THEN BlockIsProofOfStake(o) ELSE HeaderIsProofOfStake(o)

\* CBlockHeader::IsProofOfWork (not overridden): !IsProofOfStake().
IsProofOfWork(o) == ~IsProofOfStake(o)

PrevoutStake(o) ==
    IF IsBlock(o) THEN BlockPrevoutStake(o) ELSE HeaderPrevoutStake(o)

StakeTime(o) ==
    IF IsBlock(o) THEN BlockStakeTime(o) ELSE HeaderStakeTime(o)


\* Whether the call reads vtx[1]: the conditions under which control reaches
\* a vtx[1] expression in the member function named op.
ReadsVtx1(op, o) ==
    CASE op = "IsProofOfStake" -> Len(o.vtx) # 0 /\ Len(o.vtx) > 1
      [] op \in {"PrevoutStake", "StakeTime"} ->
            Len(o.vtx) # 0 /\ (Len(o.vtx) > 1 \/ BlockIsProofOfStake(o))
      [] op = "GetProofOfStake" ->
            (Len(o.vtx) # 0 /\ Len(o.vtx) > 1) \/ BlockIsProofOfStake(o)
      [] op = "GetBlockHeader" -> Len(o.vtx) # 0 /\ (Len(o.vtx) > 1 \/ BlockIsProofOfStake(o))
      [] OTHER -> FALSE

\* std::vector::operator[] past the end: undefined behaviour.
OutOfRange(op, o) == ReadsVtx1(op, o) /\ Len(o.vtx) < 2

\* What an out-of-range read of vtx[1] can hand back when it does not fault.
GarbageOutPoints == {NullOutPoint, StoredOutPoint, [hash |-> 2, n |-> 0]}
GarbageTimes == {0, 5, 7}

\* CBlock::GetProofOfStake: the set of outcomes of one call.  IsProofOfStake()
\* is true for an empty vtx with fStake set, and the true branch reads vtx[1]
\* without looking at the size: then the call faults or returns whatever the
\* read finds.
GetProofOfStake(o) ==
    IF BlockIsProofOfStake(o)
    THEN IF Len(o.vtx) > 1
         THEN {[fault |-> FALSE, val |-> <<o.vtx[2].vin[1], o.vtx[2].nTime>>]}
         ELSE {[fault |-> TRUE, val |-> <<>>]}
              \cup {[fault |-> FALSE, val |-> <<p, t>>] :
                        p \in GarbageOutPoints, t \in GarbageTimes}
    ELSE {[fault |-> FALSE, val |-> <<NullOutPoint, 0>>]}

\* GetBlockHeader with a slip: copies the stored stake fields.
GetBlockHeaderStored(o) ==
    [NewHeader EXCEPT !.nVersion = o.nVersion,
                      !.hashPrevBlock = o.hashPrevBlock,
                      !.hashMerkleRoot = o.hashMerkleRoot,
                      !.nTime = o.nTime,
                      !.nBits = o.nBits,
                      !.nNonce = o.nNonce,
                      !.hashStateRoot = o.hashStateRoot,
                      !.vchBlockSig = o.vchBlockSig,
                      !.fStake = o.fStake,
                      !.prevoutStake = o.prevoutStake,
                      !.nStakeTime = o.nStakeTime]

\* CBlock::GetBlockHeader
GetBlockHeader(o) ==
    [NewHeader EXCEPT !.nVersion = o.nVersion,
                      !.hashPrevBlock = o.hashPrevBlock,
                      !.hashMerkleRoot = o.hashMerkleRoot,
                      !.nTime = o.nTime,
                      !.nBits = o.nBits,
                      !.nNonce = o.nNonce,
                      !.hashStateRoot = o.hashStateRoot,
                      !.vchBlockSig = o.vchBlockSig,
                      !.fStake = IsProofOfStake(o),
                      !.prevoutStake = PrevoutStake(o),
                      !.nStakeTime = StakeTime(o)]

\* HeaderAssign with a slip: a memberwise copy of the stored stake fields.
HeaderAssignMemberwise(this, other) ==
    [this EXCEPT !.nVersion = other.nVersion,
                 !.hashPrevBlock = other.hashPrevBlock,
                 !.hashMerkleRoot = other.hashMerkleRoot,
                 !.nTime = other.nTime,
                 !.nBits = other.nBits,
                 !.nNonce = other.nNonce,
                 !.hashStateRoot = other.hashStateRoot,
                 !.vchBlockSig = other.vchBlockSig,
                 !.fStake = other.fStake,
                 !.prevoutStake = other.prevoutStake,
                 !.nStakeTime = other.nStakeTime]

\* CBlockHeader::operator=, this distinct from other (self assignment is the
\* identity and is a case of the action).  The three stake fields come from
\* virtual calls on other.
HeaderAssign(this, other) ==
    [this EXCEPT !.nVersion = other.nVersion,
                 !.hashPrevBlock = other.hashPrevBlock,
                 !.hashMerkleRoot = other.hashMerkleRoot,
                 !.nTime = other.nTime,
                 !.nBits = other.nBits,
                 !.nNonce = other.nNonce,
                 !.hashStateRoot = other.hashStateRoot,
                 !.vchBlockSig = other.vchBlockSig,
                 !.fStake = IsProofOfStake(other),
                 !.prevoutStake = PrevoutStake(other),
                 !.nStakeTime = StakeTime(other)]

\* CBlock::CBlock(const CBlockHeader&): SetNull(); *((CBlockHeader*)this) = header.
BlockFromHeader(header) == HeaderAssign(BlockSetNull(NewBlock), header)

---------------------------------------------------------------------------
(* Byte codec (serialize.h), little endian.                                *)

Pow256 == <<1, 256, 65536, 16777216>>

\* A 32-bit integer: four bytes, least significant first.
SerInt32(v) == [i \in 1..4 |-> (v \div Pow256[i]) % 256]

\* The 32-bit integer at s[p .. p+3], as its two's-complement residue.
ReadInt32(s, p) ==
    LET low == s[p] + 256 * s[p + 1] + 65536 * s[p + 2]
        hi  == s[p + 3]
    IN  IF hi >= 128 THEN low + (hi - 256) * 16777216 ELSE low + hi * 16777216

\* A uint256: 32 bytes, least significant first (the model's digests are
\* below 2^31, so the upper 28 bytes are zero).
SerUint256(n) == SerInt32(n) \o [i \in 1..28 |-> 0]

ReadUint256(s, p) == ReadInt32(s, p)

\* WriteCompactSize / ReadCompactSize for sizes below 253: one byte.
WriteCompactSize(n) == <<n>>

ReadCompactSize(s, p) == s[p]

SerBool(b) == <<IF b THEN 1 ELSE 0>>

ReadBool(s, p) == s[p] # 0

\* COutPoint: hash then n.
SerOutPoint(o) == SerUint256(o.hash) \o SerInt32(o.n)

ReadOutPoint(s, p) == [hash |-> ReadUint256(s, p), n |-> ReadInt32(s, p + 32)]

\* std::vector<unsigned char>: compact size then the bytes.
SerByteVector(v) == WriteCompactSize(Len(v)) \o v

ReadByteVector(s, p) ==
    [val |-> [i \in 1..ReadCompactSize(s, p) |-> s[p + i]],
     pos |-> p + 1 + ReadCompactSize(s, p)]

RECURSIVE SerOutPoints(_)
SerOutPoints(v) ==
    IF v = <<>> THEN <<>> ELSE SerOutPoint(Head(v)) \o SerOutPoints(Tail(v))

\* A transaction's own encoding: nTime, the inputs' outpoints, the coinstake mark.
SerTx(tx) ==
    SerInt32(tx.nTime) \o WriteCompactSize(Len(tx.vin)) \o SerOutPoints(tx.vin)
        \o SerBool(tx.coinStake)

ReadTx(s, p) ==
    LET n == ReadCompactSize(s, p + 4)
    IN  [val |-> [nTime |-> ReadInt32(s, p),
                  vin |-> [i \in 1..n |-> ReadOutPoint(s, p + 5 + 36 * (i - 1))],
                  coinStake |-> ReadBool(s, p + 5 + 36 * n)],
         pos |-> p + 5 + 36 * n + 1]

RECURSIVE SerTxs(_)
SerTxs(v) == IF v = <<>> THEN <<>> ELSE SerTx(Head(v)) \o SerTxs(Tail(v))

\* std::vector<CTransactionRef>: compact size then each transaction.
SerTxVector(v) == WriteCompactSize(Len(v)) \o SerTxs(v)

RECURSIVE ReadTxs(_, _, _)
ReadTxs(s, p, n) ==
    IF n = 0 THEN [val |-> <<>>, pos |-> p]
    ELSE LET t == ReadTx(s, p)
             r == ReadTxs(s, t.pos, n - 1)
         IN  [val |-> <<t.val>> \o r.val, pos |-> r.pos]

ReadTxVector(s, p) == ReadTxs(s, p + 1, ReadCompactSize(s, p))

RECURSIVE SerHashes(_)
SerHashes(v) ==
    IF v = <<>> THEN <<>> ELSE SerUint256(Head(v)) \o SerHashes(Tail(v))

\* std::vector<uint256>
SerHashVector(v) == WriteCompactSize(Len(v)) \o SerHashes(v)

ReadHashVector(s, p) ==
    [val |-> [i \in 1..ReadCompactSize(s, p) |-> ReadUint256(s, p + 1 + 32 * (i - 1))],
     pos |-> p + 1 + 32 * ReadCompactSize(s, p)]

\* The digest primitive behind GetHash: a position-sensitive fold of the
\* bytes s[lo..hi], by halves.
RECURSIVE HashFold(_, _, _)
HashFold(s, lo, hi) ==
    IF lo > hi THEN 7
    ELSE IF lo = hi THEN (s[lo] + 1) % 65521
    ELSE LET mid == (lo + hi) \div 2
         IN  (HashFold(s, lo, mid) * 31 + HashFold(s, mid + 1, hi) * 17 + 1) % 65521

Hash256(s) == HashFold(s, 1, Len(s))

---------------------------------------------------------------------------
(* SerializationOp of the three classes, writing and reading.              *)

\* RefreshStake with a slip: the stored stake fields are left as they are.
RefreshStakeSkipped(o) == o

\* CBlockHeader::SerializationOp, the three assignments before the stake
\* fields are transferred: the stored stake fields are overwritten, in this order, by
\* the virtual calls.
RefreshStake(o) ==
    LET o1 == [o EXCEPT !.fStake = IsProofOfStake(o)]
        o2 == [o1 EXCEPT !.prevoutStake = PrevoutStake(o1)]
    IN  [o2 EXCEPT !.nStakeTime = StakeTime(o2)]

\* CBlockHeader::SerializationOp, writing: the object afterwards and the bytes.
HeaderWrite(o) ==
    LET r == RefreshStake(o)
    IN  [obj |-> r,
         bytes |-> SerInt32(o.nVersion) \o SerUint256(o.hashPrevBlock)
                     \o SerUint256(o.hashMerkleRoot) \o SerInt32(o.nTime)
                     \o SerInt32(o.nBits) \o SerInt32(o.nNonce)
                     \o SerUint256(o.hashStateRoot) \o SerByteVector(o.vchBlockSig)
                     \o SerBool(r.fStake) \o SerOutPoint(r.prevoutStake)
                     \o SerInt32(r.nStakeTime)]

\* HeaderRead with a slip: nBits and nNonce are read in the other order.
HeaderReadSwapped(o, s, p) ==
    LET sig == ReadByteVector(s, p + 112)
        o1 == [o EXCEPT !.nVersion = ReadInt32(s, p),
                        !.hashPrevBlock = ReadUint256(s, p + 4),
                        !.hashMerkleRoot = ReadUint256(s, p + 36),
                        !.nTime = ReadInt32(s, p + 68),
                        !.nNonce = ReadInt32(s, p + 72),
                        !.nBits = ReadInt32(s, p + 76),
                        !.hashStateRoot = ReadUint256(s, p + 80),
                        !.vchBlockSig = sig.val]
        q  == sig.pos
    IN  [obj |-> [o1 EXCEPT !.fStake = ReadBool(s, q),
                            !.prevoutStake = ReadOutPoint(s, q + 1),
                            !.nStakeTime = ReadInt32(s, q + 37)],
         pos |-> q + 41]

\* CBlockHeader::SerializationOp, reading s from position p into o: the
\* object afterwards and the position after the header.
HeaderRead(o, s, p) ==
    LET sig == ReadByteVector(s, p + 112)
        o1 == [o EXCEPT !.nVersion = ReadInt32(s, p),
                        !.hashPrevBlock = ReadUint256(s, p + 4),
                        !.hashMerkleRoot = ReadUint256(s, p + 36),
                        !.nTime = ReadInt32(s, p + 68),
                        !.nBits = ReadInt32(s, p + 72),
                        !.nNonce = ReadInt32(s, p + 76),
                        !.hashStateRoot = ReadUint256(s, p + 80),
                        !.vchBlockSig = sig.val]
        o2 == RefreshStake(o1)
        q  == sig.pos
    IN  [obj |-> [o2 EXCEPT !.fStake = ReadBool(s, q),
                            !.prevoutStake = ReadOutPoint(s, q + 1),
                            !.nStakeTime = ReadInt32(s, q + 37)],
         pos |-> q + 41]

\* CBlock::SerializationOp, writing: the header part, then vtx.
BlockWrite(o) ==
    LET h == HeaderWrite(o)
    IN  [obj |-> h.obj, bytes |-> h.bytes \o SerTxVector(h.obj.vtx)]

\* CBlock::SerializationOp, reading.
BlockRead(o, s, p) ==
    LET h == HeaderRead(o, s, p)
        t == ReadTxVector(s, h.pos)
    IN  [obj |-> [h.obj EXCEPT !.vtx = t.val], pos |-> t.pos]

\* Serialize / Unserialize through a handle whose static type is handle:
\* neither is virtual, so the handle picks the SerializationOp.
Write(handle, o) == IF handle = "CBlock" THEN BlockWrite(o) ELSE HeaderWrite(o)

Read(handle, s) ==
    IF handle = "CBlock" THEN BlockRead(NewBlock, s, 1) ELSE HeaderRead(NewHeader, s, 1)

\* The stream's nType is a set of flags; nVersion a protocol version.
StreamTypes == {{"SER_NETWORK"}, {"SER_DISK"}, {"SER_GETHASH"}}
StreamVersions == {70015, 70016}

\* LocatorWrite with a slip: the version is written in every context.
LocatorWriteAlwaysVersion(o, nType, nVersion) ==
    SerInt32(nVersion) \o SerHashVector(o.vHave)

\* CBlockLocator::SerializationOp, writing.
LocatorWrite(o, nType, nVersion) ==
    (IF "SER_GETHASH" \notin nType THEN SerInt32(nVersion) ELSE <<>>)
        \o SerHashVector(o.vHave)

\* CBlockLocator::SerializationOp, reading: the version, when present, goes
\* to a local and is dropped.
LocatorRead(s, nType) ==
    LET p == IF "SER_GETHASH" \notin nType THEN 5 ELSE 1
        v == ReadHashVector(s, p)
    IN  [obj |-> [NewLocator EXCEPT !.vHave = v.val], pos |-> v.pos]

\* CBlockHeader::GetHash (primitives/block.cpp): SerializeHash(*this), the
\* digest of CBlockHeader::Serialize under SER_GETHASH.
GetHash(o) == [obj |-> HeaderWrite(o).obj, hash |-> Hash256(HeaderWrite(o).bytes)]

---------------------------------------------------------------------------
(* The state machine.                                                      *)

\* The eight plain header fields, and the values a caller fills them with:
\* all null, all different, and a mined header (version bits, a two-byte
\* digest, a compact target, no signature).
PlainFields ==
    {"nVersion", "hashPrevBlock", "hashMerkleRoot", "nTime", "nBits", "nNonce",
     "hashStateRoot", "vchBlockSig"}

HeaderImages ==
    {[nVersion |-> 0, hashPrevBlock |-> 0, hashMerkleRoot |-> 0, nTime |-> 0,
      nBits |-> 0, nNonce |-> 0, hashStateRoot |-> 0, vchBlockSig |-> <<>>],
     [nVersion |-> -1, hashPrevBlock |-> 11, hashMerkleRoot |-> 12, nTime |-> 13,
      nBits |-> 14, nNonce |-> 15, hashStateRoot |-> 16, vchBlockSig |-> <<17>>],
     [nVersion |-> 536870912, hashPrevBlock |-> 300, hashMerkleRoot |-> 0,
      nTime |-> 1600000000, nBits |-> 486604799, nNonce |-> 0,
      hashStateRoot |-> 1, vchBlockSig |-> <<>>]}

\* The values a caller assigns to each stored stake field.
FieldDomain ==
    [fStake |-> BOOLEAN, prevoutStake |-> {NullOutPoint, StoredOutPoint},
     nStakeTime |-> {0, 5}]

Hashes == {1, 2}

\* The static types a handle to o can have.
Handles(o) == IF IsBlock(o) THEN {"CBlockHeader", "CBlock"} ELSE {"CBlockHeader"}

\* A destination header that already holds values.
UsedHeader ==
    [NewHeader EXCEPT !.nBits = 14, !.fStake = TRUE,
                      !.prevoutStake = StoredOutPoint, !.nStakeTime = 5]

Init ==
    /\ obj \in {NewHeader, NewBlock, NewLocator}
    /\ ret = [op |-> "construct"]

\* A call that faulted ended the process.
Alive == ~(ret.op = "GetProofOfStake" /\ ret.fault)

\* Assignments to the eight plain fields.
AssignHeaderFields(img) ==
    /\ Alive
    /\ IsHeaderOrBlock(obj)
    /\ obj' = [f \in DOMAIN obj |-> IF f \in PlainFields THEN img[f] ELSE obj[f]]
    /\ ret' = [op |-> "assign"]

\* An assignment to one stored stake field.
AssignField(f, v) ==
    /\ Alive
    /\ IsHeaderOrBlock(obj)
    /\ obj' = [obj EXCEPT ![f] = v]
    /\ ret' = [op |-> "assign"]

SetChecked(b) ==
    /\ Alive
    /\ IsBlock(obj)
    /\ obj' = [obj EXCEPT !.fChecked = b]
    /\ ret' = [op |-> "assign"]

PushTx(tx) ==
    /\ Alive
    /\ IsBlock(obj)
    /\ Len(obj.vtx) < MaxTx
    /\ obj' = [obj EXCEPT !.vtx = Append(@, tx)]
    /\ ret' = [op |-> "push_back"]

ClearVtx ==
    /\ Alive
    /\ IsBlock(obj)
    /\ obj' = [obj EXCEPT !.vtx = <<>>]
    /\ ret' = [op |-> "clear"]

SetNull(handle) ==
    /\ Alive
    /\ IsHeaderOrBlock(obj)
    /\ handle \in Handles(obj)
    /\ obj' = IF handle = "CBlock" THEN BlockSetNull(obj) ELSE HeaderSetNull(obj)
    /\ ret' = [op |-> "SetNull"]

CallIsProofOfStake(handle) ==
    /\ Alive
    /\ IsHeaderOrBlock(obj)
    /\ handle \in Handles(obj)
    /\ ret' = [op |-> "IsProofOfStake", handle |-> handle, val |-> IsProofOfStake(obj),
               oob |-> IsBlock(obj) /\ OutOfRange("IsProofOfStake", obj), pre |-> obj]
    /\ UNCHANGED obj

CallIsProofOfWork(handle) ==
    /\ Alive
    /\ IsHeaderOrBlock(obj)
    /\ handle \in Handles(obj)
    /\ ret' = [op |-> "IsProofOfWork", handle |-> handle, val |-> IsProofOfWork(obj),
               oob |-> IsBlock(obj) /\ OutOfRange("IsProofOfStake", obj), pre |-> obj]
    /\ UNCHANGED obj

CallPrevoutStake(handle) ==
    /\ Alive
    /\ IsHeaderOrBlock(obj)
    /\ handle \in Handles(obj)
    /\ ret' = [op |-> "PrevoutStake", handle |-> handle, val |-> PrevoutStake(obj),
               oob |-> IsBlock(obj) /\ OutOfRange("PrevoutStake", obj), pre |-> obj]
    /\ UNCHANGED obj

CallStakeTime(handle) ==
    /\ Alive
    /\ IsHeaderOrBlock(obj)
    /\ handle \in Handles(obj)
    /\ ret' = [op |-> "StakeTime", handle |-> handle, val |-> StakeTime(obj),
               oob |-> IsBlock(obj) /\ OutOfRange("StakeTime", obj), pre |-> obj]
    /\ UNCHANGED obj

CallGetProofOfStake ==
    /\ Alive
    /\ IsBlock(obj)
    /\ \E r \in GetProofOfStake(obj) :
          ret' = [op |-> "GetProofOfStake", val |-> r.val, fault |-> r.fault,
                  oob |-> OutOfRange("GetProofOfStake", obj), pre |-> obj]
    /\ UNCHANGED obj

CallGetBlockHeader ==
    /\ Alive
    /\ IsBlock(obj)
    /\ ret' = [op |-> "GetBlockHeader", val |-> GetBlockHeader(obj),
               oob |-> OutOfRange("GetBlockHeader", obj), pre |-> obj]
    /\ UNCHANGED obj

\* d = s through a header-typed handle to obj; self: d is obj itself.
CallAssign(d, self) ==
    /\ Alive
    /\ IsHeaderOrBlock(obj)
    /\ IF self
       THEN /\ ret' = [op |-> "operator=", self |-> TRUE, val |-> obj, pre |-> obj]
            /\ UNCHANGED obj
       ELSE /\ ret' = [op |-> "operator=", self |-> FALSE,
                       val |-> HeaderAssign(d, obj), pre |-> obj]
            /\ UNCHANGED obj

CallBlockFromHeader ==
    /\ Alive
    /\ IsHeaderOrBlock(obj)
    /\ ret' = [op |-> "CBlock(header)", val |-> BlockFromHeader(obj), pre |-> obj]
    /\ UNCHANGED obj

CallSerialize(handle) ==
    /\ Alive
    /\ IsHeaderOrBlock(obj)
    /\ handle \in Handles(obj)
    /\ obj' = Write(handle, obj).obj
    /\ ret' = [op |-> "Serialize", handle |-> handle,
               val |-> Write(handle, obj).bytes, pre |-> obj]

CallGetHash ==
    /\ Alive
    /\ IsHeaderOrBlock(obj)
    /\ obj' = GetHash(obj).obj
    /\ ret' = [op |-> "GetHash", val |-> GetHash(obj).hash, pre |-> obj]

\* The bytes just written are read into a freshly constructed object of the
\* type they were written as.
CallUnserialize ==
    /\ Alive
    /\ IsHeaderOrBlock(obj)
    /\ ret.op = "Serialize"
    /\ ret' = [op |-> "Unserialize", handle |-> ret.handle,
               val |-> Read(ret.handle, ret.val).obj,
               rest |-> Len(ret.val) + 1 - Read(ret.handle, ret.val).pos,
               x |-> ret.pre]
    /\ UNCHANGED obj

LocatorPush(h) ==
    /\ Alive
    /\ IsLocator(obj)
    /\ Len(obj.vHave) < MaxHave
    /\ obj' = [obj EXCEPT !.vHave = Append(@, h)]
    /\ ret' = [op |-> "push_back"]

LocatorSetNull ==
    /\ Alive
    /\ IsLocator(obj)
    /\ obj' = [obj EXCEPT !.vHave = <<>>]
    /\ ret' = [op |-> "SetNull"]

LocatorSerialize(nType, nVersion) ==
    /\ Alive
    /\ IsLocator(obj)
    /\ ret' = [op |-> "LocatorSerialize", nType |-> nType, nVersion |-> nVersion,
               val |-> LocatorWrite(obj, nType, nVersion), pre |-> obj]
    /\ UNCHANGED obj

LocatorUnserialize ==
    /\ Alive
    /\ IsLocator(obj)
    /\ ret.op = "LocatorSerialize"
    /\ ret' = [op |-> "LocatorUnserialize", nType |-> ret.nType,
               val |-> LocatorRead(ret.val, ret.nType).obj,
               rest |-> Len(ret.val) + 1 - LocatorRead(ret.val, ret.nType).pos,
               x |-> ret.pre]
    /\ UNCHANGED obj

Next ==
    \/ \E img \in HeaderImages : AssignHeaderFields(img)
    \/ \E f \in DOMAIN FieldDomain : \E v \in FieldDomain[f] : AssignField(f, v)
    \/ \E b \in BOOLEAN : SetChecked(b)
    \/ \E tx \in Transactions : PushTx(tx)
    \/ ClearVtx
    \/ \E handle \in {"CBlockHeader", "CBlock"} : SetNull(handle)
    \/ \E handle \in {"CBlockHeader", "CBlock"} : CallIsProofOfStake(handle)
    \/ \E handle \in {"CBlockHeader", "CBlock"} : CallIsProofOfWork(handle)
    \/ \E handle \in {"CBlockHeader", "CBlock"} : CallPrevoutStake(handle)
    \/ \E handle \in {"CBlockHeader", "CBlock"} : CallStakeTime(handle)
    \/ CallGetProofOfStake
    \/ CallGetBlockHeader
    \/ \E d \in {NewHeader, UsedHeader} : \E self \in BOOLEAN : CallAssign(d, self)
    \/ CallBlockFromHeader
    \/ \E handle \in {"CBlockHeader", "CBlock"} : CallSerialize(handle)
    \/ CallGetHash
    \/ CallUnserialize
    \/ \E h \in Hashes : LocatorPush(h)
    \/ LocatorSetNull
    \/ \E nType \in StreamTypes : \E nVersion \in StreamVersions :
           LocatorSerialize(nType, nVersion)
    \/ LocatorUnserialize

Spec == Init /\ [][Next]_vars

---------------------------------------------------------------------------
(* Properties.                                                             *)

\* Position of the isStake byte in an encoded header: after the seven fixed
\* fields (112 bytes), the signature's length byte and the signature.
StakeOffset(o) == 112 + 1 + Len(o.vchBlockSig) + 1

\* The stake classification of a Block as the specification words it.
ExpectedIsStake(b) ==
    IF Len(b.vtx) = 0 THEN b.fStake
    ELSE IF Len(b.vtx) = 1 THEN FALSE
    ELSE b.vtx[2].coinStake

\* C1: GetBlockHeader() returns a header whose stored isStake, stakeOutpoint
\* and stakeTime are the Block's IsProofOfStake(), PrevoutStake() and
\* StakeTime(), whose eight plain fields are the Block's, and leaves the
\* Block unchanged.
C1_GetBlockHeaderDerived ==
    ret.op = "GetBlockHeader" =>
        /\ ret.val.type = "CBlockHeader"
        /\ ret.val.fStake = IsProofOfStake(ret.pre)
        /\ ret.val.prevoutStake = PrevoutStake(ret.pre)
        /\ ret.val.nStakeTime = StakeTime(ret.pre)
        /\ \A f \in PlainFields : ret.val[f] = ret.pre[f]
        /\ obj = ret.pre

\* A Block whose stored stake fields all disagree with its coinstake
\* transaction[1], and whose header snapshot carries the derived values.
C1_Witness ==
    /\ ret.op = "GetBlockHeader"
    /\ Len(ret.pre.vtx) = 2 /\ ret.pre.vtx[2] = CoinStakeTx
    /\ ~ret.pre.fStake /\ ret.pre.prevoutStake = StoredOutPoint /\ ret.pre.nStakeTime = 5
    /\ ret.pre.vchBlockSig # <<>>
    /\ ret.val.fStake /\ ret.val.prevoutStake = CoinStakeTx.vin[1]
    /\ ret.val.nStakeTime = CoinStakeTx.nTime

\* C2: on a Block, through a handle of either static type, IsProofOfStake()
\* is the stored flag for an empty list, false for one transaction, and
\* transaction[1]'s coinstake mark for two or more; IsProofOfWork() is its
\* negation.
C2_IsProofOfStakeRule ==
    (ret.op \in {"IsProofOfStake", "IsProofOfWork"} /\ IsBlock(ret.pre)) =>
        /\ ret.op = "IsProofOfStake" => ret.val = ExpectedIsStake(ret.pre)
        /\ ret.op = "IsProofOfWork" => ret.val = ~ExpectedIsStake(ret.pre)

\* Through a header-typed handle, a Block with the stored flag set and a
\* transaction[1] that is no coinstake reports proof of work.
C2_Witness ==
    /\ ret.op = "IsProofOfWork" /\ ret.handle = "CBlockHeader"
    /\ IsBlock(ret.pre) /\ Len(ret.pre.vtx) = 2 /\ ~ret.pre.vtx[2].coinStake
    /\ ret.pre.fStake
    /\ ret.val = TRUE

\* C3: on a Block, PrevoutStake() and StakeTime() are the stored values for
\* an empty list, transaction[1]'s first input's outpoint and timestamp when
\* transaction[1] exists and is a coinstake, and the null outpoint and 0 for
\* any other non-empty list.
C3_PrevoutStakeTimeRule ==
    (ret.op \in {"PrevoutStake", "StakeTime"} /\ IsBlock(ret.pre)) =>
        LET b == ret.pre
            staked == Len(b.vtx) >= 2 /\ b.vtx[2].coinStake
        IN  /\ ret.op = "PrevoutStake" =>
                ret.val = IF Len(b.vtx) = 0 THEN b.prevoutStake
                          ELSE IF staked THEN b.vtx[2].vin[1] ELSE NullOutPoint
            /\ ret.op = "StakeTime" =>
                ret.val = IF Len(b.vtx) = 0 THEN b.nStakeTime
                          ELSE IF staked THEN b.vtx[2].nTime ELSE 0

\* Two transactions, the second no coinstake, stored outpoint not null: the
\* call returns the null outpoint.
C3_Witness ==
    /\ ret.op = "PrevoutStake" /\ IsBlock(ret.pre)
    /\ Len(ret.pre.vtx) = 2 /\ ret.pre.vtx[2] = PaymentTx
    /\ ret.pre.prevoutStake = StoredOutPoint
    /\ ret.val = NullOutPoint

\* C4: every encoding of a BlockHeader or Block, through a handle of either
\* static type and whatever happened to the object before, carries as
\* isStake, stakeOutpoint and stakeTime the values IsProofOfStake(),
\* PrevoutStake() and StakeTime() return on the object being encoded.
C4_EncodesDerivedStake ==
    ret.op = "Serialize" =>
        SubSeq(ret.val, StakeOffset(ret.pre), StakeOffset(ret.pre) + 40)
            = SerBool(IsProofOfStake(ret.pre)) \o SerOutPoint(PrevoutStake(ret.pre))
                \o SerInt32(StakeTime(ret.pre))

\* A Block with stale stored stake fields, encoded through a header-typed
\* handle: the bytes carry transaction[1]'s values.
C4_Witness ==
    /\ ret.op = "Serialize" /\ ret.handle = "CBlockHeader" /\ IsBlock(ret.pre)
    /\ Len(ret.pre.vtx) = 2 /\ ret.pre.vtx[2] = CoinStakeTx
    /\ ~ret.pre.fStake /\ ret.pre.prevoutStake = StoredOutPoint /\ ret.pre.nStakeTime = 5
    /\ ret.val[StakeOffset(ret.pre)] = 1
    /\ ReadOutPoint(ret.val, StakeOffset(ret.pre) + 1) = CoinStakeTx.vin[1]

\* What C5 asks of a destination d assigned from source s.
CopiedFrom(d, s) ==
    /\ \A f \in PlainFields : d[f] = s[f]
    /\ d.fStake = IsProofOfStake(s)
    /\ d.prevoutStake = PrevoutStake(s)
    /\ d.nStakeTime = StakeTime(s)

\* C5: a header assigned, through a header-typed handle, from a distinct
\* source holds the source's eight plain fields and the source's computed
\* stake values; a Block constructed from the handle does too, with an empty
\* transaction list and checked false, so its own derived values are the
\* source's.
C5_AssignCopiesDerived ==
    /\ (ret.op = "operator=" /\ ~ret.self) => CopiedFrom(ret.val, ret.pre)
    /\ ret.op = "CBlock(header)" =>
        /\ CopiedFrom(ret.val, ret.pre)
        /\ ret.val.type = "CBlock" /\ ret.val.vtx = <<>> /\ ret.val.fChecked = FALSE
        /\ IsProofOfStake(ret.val) = IsProofOfStake(ret.pre)
        /\ PrevoutStake(ret.val) = PrevoutStake(ret.pre)
        /\ StakeTime(ret.val) = StakeTime(ret.pre)

\* A checked Block with stale stored stake fields is the source of a
\* constructed Block.
C5_Witness ==
    /\ ret.op = "CBlock(header)" /\ IsBlock(ret.pre)
    /\ Len(ret.pre.vtx) = 2 /\ ret.pre.vtx[2] = CoinStakeTx
    /\ ~ret.pre.fStake /\ ret.pre.nStakeTime = 5 /\ ret.pre.fChecked
    /\ ret.pre.nBits # 0
    /\ ret.val.fStake /\ ret.val.nStakeTime = CoinStakeTx.nTime

\* C6: no Block operation reads transaction index 1 of a list shorter than
\* two, and none faults.
C6_NoShortListRead ==
    (ret.op \in {"IsProofOfStake", "IsProofOfWork", "PrevoutStake", "StakeTime",
                 "GetProofOfStake", "GetBlockHeader"} /\ IsBlock(ret.pre)) =>
        /\ ~ret.oob
        /\ ret.op = "GetProofOfStake" => ~ret.fault

\* C7: GetHash() leaves every field of the object unchanged.
C7_GetHashNoSideEffect ==
    ret.op = "GetHash" => obj = ret.pre

\* C8: decoding the encoding of x into a fresh object of the same type gives
\* x back: a BlockHeader field for field; a Block with x's eight plain
\* fields and transaction list, stored stake fields equal to x's recomputed
\* ones and derived values equal to x's; a BlockLocator with x's hashes.
C8_RoundTrip ==
    /\ (ret.op = "Unserialize" /\ ret.handle = ret.x.type) =>
        /\ ret.val.type = ret.x.type
        /\ \A f \in PlainFields : ret.val[f] = ret.x[f]
        /\ ret.val.fStake = IsProofOfStake(ret.x)
        /\ ret.val.prevoutStake = PrevoutStake(ret.x)
        /\ ret.val.nStakeTime = StakeTime(ret.x)
        /\ IsProofOfStake(ret.val) = IsProofOfStake(ret.x)
        /\ PrevoutStake(ret.val) = PrevoutStake(ret.x)
        /\ StakeTime(ret.val) = StakeTime(ret.x)
        /\ IsBlock(ret.x) => ret.val.vtx = ret.x.vtx
        /\ ~IsBlock(ret.x) => ret.val = ret.x
    /\ ret.op = "LocatorUnserialize" => ret.val = ret.x

\* A Block with a signature, two transactions and stale stored stake fields
\* has gone through the round trip.
C8_Witness ==
    /\ ret.op = "Unserialize" /\ ret.handle = "CBlock"
    /\ Len(ret.x.vtx) = 2 /\ ret.x.vtx[2] = CoinStakeTx
    /\ ~ret.x.fStake /\ ret.x.prevoutStake = StoredOutPoint
    /\ ret.x.vchBlockSig # <<>> /\ ret.x.nVersion < 0
    /\ ret.val.vtx = ret.x.vtx /\ ret.val.fStake
    /\ ret.rest = 0

\* C9: GetProofOfStake() is (PrevoutStake(), StakeTime()), and is the null
\* outpoint and 0 whenever IsProofOfStake() is false.
C9_GetProofOfStakePair ==
    ret.op = "GetProofOfStake" =>
        /\ ~ret.fault
        /\ ret.val = <<PrevoutStake(ret.pre), StakeTime(ret.pre)>>
        /\ ~IsProofOfStake(ret.pre) => ret.val = <<NullOutPoint, 0>>

\* C10: outside hash context a locator's encoding is the stream's version
\* integer followed by its hash-context encoding; the hash-context encoding
\* is the length-prefixed hash sequence alone, the same for every stream
\* version; each decodes, in its own context, to the same hash sequence.
C10_LocatorContexts ==
    /\ ret.op = "LocatorSerialize" =>
        /\ \A v \in StreamVersions :
              /\ LocatorWrite(ret.pre, {"SER_GETHASH"}, v) = SerHashVector(ret.pre.vHave)
              /\ Len(LocatorWrite(ret.pre, {"SER_GETHASH"}, v)) = 1 + 32 * Len(ret.pre.vHave)
        /\ "SER_GETHASH" \in ret.nType => ret.val = SerHashVector(ret.pre.vHave)
        /\ "SER_GETHASH" \notin ret.nType =>
              ret.val = SerInt32(ret.nVersion)
                          \o LocatorWrite(ret.pre, {"SER_GETHASH"}, ret.nVersion)
    /\ ret.op = "LocatorUnserialize" =>
        /\ ret.val.vHave = ret.x.vHave
        /\ ret.rest = 0

\* A two-hash locator written for the network and read back.
C10_Witness ==
    /\ ret.op = "LocatorUnserialize" /\ ret.nType = {"SER_NETWORK"}
    /\ Len(ret.x.vHave) = 2 /\ ret.x.vHave[1] # ret.x.vHave[2]
    /\ ret.val.vHave = ret.x.vHave

=============================================================================
